---- MODULE Spec2Model ----
(***************************************************************************)
(* gocache: the mutex-protected in-memory cache with statistics            *)
(* (src/cacheable.go, the Cache type with data, mu and stats).              *)
(*                                                                         *)
(* Every public operation holds c.mu from its first to its last statement, *)
(* so an operation is one atomic action.  A timer created by               *)
(* time.AfterFunc is a separate participant: once its duration has elapsed *)
(* the runtime starts the callback in its own goroutine (TimerFire); the   *)
(* callback then waits for c.mu and runs its body (TimerCallback).         *)
(* timer.Stop() only prevents a timer that has not fired yet.              *)
(* The runtime needs no lock to fire a timer, so a timer can also fire     *)
(* while an operation holds c.mu: GetAndDelete and ChangeTtl read the      *)
(* clock (val.Expired()) before they call val.timer.Stop(), and the        *)
(* entry's deadline can pass between the two statements.                   *)
(* The timer objects form a bag; `held` marks the one that the entry       *)
(* stored under its key points to (cacheValue.timer).                      *)
(* An operation's return value is the operator <Operation>Result,          *)
(* evaluated in the state the operation is called in.                      *)
(*                                                                         *)
(* The counters of Stats are Go `uint`.  Their arithmetic is modulo 2^64;  *)
(* a counter is held here as the signed residue of its value, which is     *)
(* exactly the number int(c.stats.Keys) converts it to, so a counter that  *)
(* wrapped below zero reads as a negative number.                          *)
(***************************************************************************)
EXTENDS Integers, Sequences, FiniteSets, Bags, TLC

\* ---------------------------------------------------------------- bounds
MaxTime == 2
MaxTtl == 1
MaxTimers == 2
MaxLookups == 1
MaxDebt == 1
MaxListed == 3

\* ---------------------------------------------------------------- inputs
KeySet == {"a", "bb"}
ValueSet == {"x", "yy"}
TtlArgs == (-1)..MaxTtl
StdTtlArgs == {1}
MaxKeysArgs == {-1, 0, 1}
KeyLists == UNION {[1..n -> KeySet] : n \in 0..MaxListed}

NoValue == ""

VARIABLES
    stdTtl,          \* Cache.stdTtl
    deleteOnExpire,  \* Cache.deleteOnExpire
    maxKeys,         \* Cache.maxKeys
    data,            \* Cache.data: key -> cacheValue, defined on the stored keys
    stats,           \* Cache.stats
    timers,          \* the time.Timer objects created by time.AfterFunc, a bag
    now,             \* time.Now()
    lookups,         \* history: Get/GetAndDelete calls since the ledger was last reset
    lastSet,         \* history: per stored key, the value of its latest successful Set
    built,           \* New has applied its options and returned the cache
    mu,              \* Cache.mu: "free", or the goroutine that holds it
    at               \* per goroutine, how far it is in the call it is making

vars == <<stdTtl, deleteOnExpire, maxKeys, data, stats, timers, now, lookups, lastSet, built,
          mu, at>>

\* two calling goroutines, and the goroutine the runtime starts for a fired timer
Callers == {"c1", "c2"}
Procs == Callers \cup {"timer"}

\* a goroutine that is not inside an operation of the cache
Idle == [op |-> "none", pc |-> "idle", exit |-> "none"]

\* the cache, its timers and the clock, which the steps of the mutex leave alone
cache == <<stdTtl, deleteOnExpire, maxKeys, data, stats, timers, now, lookups, lastSet, built>>

\* what New leaves behind and no operation assigns to; an operation taken as one atomic
\* step, from Lock to Unlock, leaves the mutex free as it found it
Config == <<stdTtl, deleteOnExpire, maxKeys, built, mu, at>>

\* ---------------------------------------------------------------- helpers
\* the size in bytes SizeOf reports for a string, without the fixed size of its header
SizeOf(v) == Len(v)

ZeroStats == [Hits |-> 0, Misses |-> 0, Keys |-> 0, KeySize |-> 0, ValueSize |-> 0]

Expired(v) == v.ttl > 0 /\ v.expiryDate < now

\* delete(c.data, key)
MapDelete(d, key) == [k \in (DOMAIN d) \ {key} |-> d[k]]

\* c.data[key] = val
MapPut(d, key, val) == [k \in (DOMAIN d) \cup {key} |-> IF k = key THEN val ELSE d[k]]

\* the timer objects that the entry stored under key points to (at most one)
Held(ts, key) == {t \in BagToSet(ts) : t.held /\ t.key = key}

\* val.timer.Stop(), for the entry stored under key: it prevents the callback only if
\* the timer has not fired yet
Stop(ts, key) ==
    IF \E t \in Held(ts, key) : t.state = "armed"
    THEN LET t == CHOOSE t \in Held(ts, key) : t.state = "armed"
         IN (ts (-) SetToBag({t})) (+) SetToBag({[t EXCEPT !.state = "stopped", !.when = 0]})
    ELSE ts

\* an operation found the entry stored under key live, and the entry's timer can fire
\* before the operation reaches val.timer.Stop(): the operation runs at the deadline
Overdue(ts, key) ==
    /\ now < MaxTime
    /\ \E t \in Held(ts, key) : t.state = "armed" /\ t.when = now

\* the timers once the timer of the entry stored under key has fired
FiredUnderway(ts, key) ==
    LET t == CHOOSE t \in Held(ts, key) : t.state = "armed"
    IN (ts (-) SetToBag({t})) (+) SetToBag({[t EXCEPT !.state = "fired", !.when = 0]})

\* the entry stored under key leaves the map, or its timer field is overwritten: a
\* stopped timer is garbage, a timer that was not stopped lives on without its entry
Unhold(ts, key) ==
    IF Held(ts, key) = {} THEN ts
    ELSE LET t == CHOOSE t \in Held(ts, key) : TRUE
         IN IF t.state = "stopped"
            THEN ts (-) SetToBag({t})
            ELSE (ts (-) SetToBag({t})) (+) SetToBag({[t EXCEPT !.held = FALSE]})

\* the timers whose callback can still run
Live(ts) == {t \in BagToSet(ts) : t.state # "stopped"}

RECURSIVE Count(_, _)
LiveCount(ts) == Count(ts, Live(ts))
Count(ts, S) ==
    IF S = {} THEN 0
    ELSE LET t == CHOOSE t \in S : TRUE IN CopiesIn(t, ts) + Count(ts, S \ {t})

\* time.AfterFunc(d, func() { ... key, val.size ... }), stored in the entry's timer field
AfterFunc(ts, key, size, d) ==
    ts (+) SetToBag({[state |-> "armed", key |-> key, size |-> size, when |-> now + d,
                      held |-> TRUE]})

\* the model follows a counter only this far below zero
InBounds(s) ==
    /\ s.Keys >= -MaxDebt
    /\ s.KeySize >= -(2 * MaxDebt)
    /\ s.ValueSize >= -(2 * MaxDebt)

\* ---------------------------------------------------------------- options
\* a variant that takes only a positive default TTL
WithStdTtlPositive(c, arg) == IF arg > 0 THEN [c EXCEPT !.stdTtl = arg] ELSE c

WithStdTtl(c, arg) == IF arg > -1 THEN [c EXCEPT !.stdTtl = arg] ELSE c

WithDeleteOnExpire(c, arg) == [c EXCEPT !.deleteOnExpire = arg]

WithMaxKeys(c, arg) == IF arg > -1 THEN [c EXCEPT !.maxKeys = arg] ELSE c

\* the settings in the struct literal of New
Defaults == [stdTtl |-> 0, deleteOnExpire |-> TRUE, maxKeys |-> -1]

New(s, d, m) == WithMaxKeys(WithDeleteOnExpire(WithStdTtl(Defaults, s), d), m)

Init ==
    /\ \E s \in StdTtlArgs, d \in BOOLEAN, m \in MaxKeysArgs :
          /\ stdTtl = New(s, d, m).stdTtl
          /\ deleteOnExpire = New(s, d, m).deleteOnExpire
          /\ maxKeys = New(s, d, m).maxKeys
    /\ data = <<>>
    /\ stats = ZeroStats
    /\ timers = EmptyBag
    /\ now = 0
    /\ lookups = 0
    /\ lastSet = [k \in KeySet |-> NoValue]
    /\ built = TRUE
    /\ mu = "free"
    /\ at = [p \in Procs |-> Idle]

\* ---------------------------------------------------------------- operations
\* the history of the keys that are stored after the step; a key that has left the map
\* has none
Kept == [k \in KeySet |-> IF k \in DOMAIN data' THEN lastSet[k] ELSE NoValue]

\* the capacity guard of SetWithTtl
CacheFull(key) ==
    key \notin DOMAIN data /\ maxKeys # -1 /\ stats.Keys >= maxKeys

\* the error SetWithTtl returns
SetResult(key) == IF CacheFull(key) THEN "ErrCacheFull" ELSE "nil"

\* a variant that counts the key before the capacity check
SetRejectedCounted(key) ==
    /\ stats' = [stats EXCEPT !.Keys = @ + 1]
    /\ UNCHANGED <<data, timers>>

\* the early return of SetWithTtl
SetRejected(key) == UNCHANGED <<data, stats, timers>>

\* a variant that counts the overwrite of a stored key as a hit
SetStatsCounted(key, value) ==
    IF key \in DOMAIN data
    THEN [stats EXCEPT !.ValueSize = @ - data[key].size, !.Hits = @ + 1]
    ELSE [stats EXCEPT !.Keys = @ + 1,
                       !.KeySize = @ + SizeOf(key),
                       !.ValueSize = @ + SizeOf(value)]

\* the ledger after SetWithTtl has stored value under key
SetStats(key, value) ==
    IF key \in DOMAIN data
    THEN [stats EXCEPT !.ValueSize = @ - data[key].size]
    ELSE [stats EXCEPT !.Keys = @ + 1,
                       !.KeySize = @ + SizeOf(key),
                       !.ValueSize = @ + SizeOf(value)]

\* a variant that takes the default for a ttl of 0 as well
KeyTtlPositive(ttl) == IF ttl > 0 THEN ttl ELSE stdTtl

\* the TTL SetWithTtl gives the entry
KeyTtl(ttl) == IF ttl > -1 THEN ttl ELSE stdTtl

\* the cacheValue SetWithTtl builds
NewEntry(value, keyTtl, arm) ==
    [value |-> value, size |-> SizeOf(value), ttl |-> keyTtl,
     expiryDate |-> now + keyTtl, timer |-> IF arm THEN "timer" ELSE "nil"]

SetWithTtl(key, value, ttl) ==
    LET ok == key \in DOMAIN data
        valueSize == SizeOf(value)
        ts1 == IF ok /\ data[key].timer # "nil" THEN Stop(timers, key) ELSE timers
        data1 == MapDelete(data, key)
        ts2 == Unhold(ts1, key)
        keyTtl == KeyTtl(ttl)
        arm == keyTtl > 0 /\ deleteOnExpire
        val == NewEntry(value, keyTtl, arm)
    IN IF SetResult(key) = "ErrCacheFull"
       THEN /\ SetRejected(key)
            /\ UNCHANGED <<Config, now, lookups, lastSet>>
       ELSE /\ arm => LiveCount(ts2) < MaxTimers
            /\ InBounds(SetStats(key, value))
            /\ data' = MapPut(data1, key, val)
            /\ stats' = SetStats(key, value)
            /\ timers' = IF arm THEN AfterFunc(ts2, key, valueSize, keyTtl) ELSE ts2
            /\ lastSet' = [Kept EXCEPT ![key] = value]
            /\ UNCHANGED <<Config, now, lookups>>

Set(key, value) == SetWithTtl(key, value, -1)

\* what a lookup of key finds: the stored entry counts only if it is not expired
Found(key) == key \in DOMAIN data /\ ~Expired(data[key])

\* what Get and GetAndDelete return
GetResult(key) ==
    IF key \notin DOMAIN data
    THEN [value |-> NoValue, err |-> "ErrKeyNotFound"]
    ELSE IF Expired(data[key])
    THEN [value |-> NoValue, err |-> "ErrKeyNotFound"]
    ELSE [value |-> data[key].value, err |-> "nil"]

\* a variant whose failed lookups are not counted
LookupStatsHitsOnly(err) ==
    IF err = "nil" THEN [stats EXCEPT !.Hits = @ + 1] ELSE stats

\* the ledger after a lookup that returned err
LookupStats(err) ==
    IF err = "nil" THEN [stats EXCEPT !.Hits = @ + 1] ELSE [stats EXCEPT !.Misses = @ + 1]

\* a variant that removes an expired entry on lookup when delete-on-expire is set
GetEvicting(key) ==
    /\ lookups < MaxLookups
    /\ lookups' = lookups + 1
    /\ stats' = LookupStats(GetResult(key).err)
    /\ IF key \in DOMAIN data /\ Expired(data[key]) /\ deleteOnExpire
       THEN /\ data' = MapDelete(data, key)
            /\ timers' = Unhold(Stop(timers, key), key)
       ELSE UNCHANGED <<data, timers>>
    /\ lastSet' = Kept
    /\ UNCHANGED <<Config, now>>

Get(key) ==
    /\ lookups < MaxLookups
    /\ lookups' = lookups + 1
    /\ stats' = LookupStats(GetResult(key).err)
    /\ UNCHANGED <<Config, data, timers, now, lastSet>>

\* the ledger after the entry stored under key has been removed
RemoveStats(s, key, size) ==
    [s EXCEPT !.Keys = @ - 1, !.KeySize = @ - SizeOf(key), !.ValueSize = @ - size]

GetAndDelete(key) ==
    /\ lookups < MaxLookups
    /\ lookups' = lookups + 1
    /\ IF GetResult(key).err # "nil"
       THEN /\ stats' = LookupStats(GetResult(key).err)
            /\ UNCHANGED <<data, timers, now>>
       ELSE LET val == data[key]
                stats1 == RemoveStats(LookupStats("nil"), key, val.size)
            IN /\ InBounds(stats1)
               /\ stats' = stats1
               /\ data' = MapDelete(data, key)
               /\ \/ /\ timers' = Unhold(IF val.timer # "nil" THEN Stop(timers, key)
                                                            ELSE timers, key)
                     /\ now' = now
                  \* the deadline passes after val.Expired(): Stop() finds the timer fired
                  \/ /\ Overdue(timers, key)
                     /\ timers' = Unhold(Stop(FiredUnderway(timers, key), key), key)
                     /\ now' = now + 1
    /\ lastSet' = Kept
    /\ UNCHANGED Config

\* the count Delete returns
DeleteResult(key) == IF key \in DOMAIN data THEN 1 ELSE 0

Delete(key) ==
    IF DeleteResult(key) = 0
    THEN UNCHANGED vars
    ELSE LET val == data[key]
             stats1 == RemoveStats(stats, key, val.size)
         IN /\ InBounds(stats1)
            /\ stats' = stats1
            /\ data' = MapDelete(data, key)
            /\ timers' = Unhold(IF val.timer # "nil" THEN Stop(timers, key) ELSE timers, key)
            /\ lastSet' = Kept
            /\ UNCHANGED <<Config, now, lookups>>

\* a variant that does not look at the expiry of the entry
ChangeTtlResultStored(key) == key \in DOMAIN data

\* the flag ChangeTtl returns
ChangeTtlResult(key) == key \in DOMAIN data /\ ~Expired(data[key])

\* a variant that rebuilds the entry and leaves its value out
RetimedBlank(val, ttl, arm) ==
    [val EXCEPT !.value = NoValue, !.ttl = ttl, !.expiryDate = now + ttl,
                !.timer = IF arm THEN "timer" ELSE @]

\* the assignments of ChangeTtl to the stored entry
Retimed(val, ttl, arm) ==
    [val EXCEPT !.ttl = ttl, !.expiryDate = now + ttl, !.timer = IF arm THEN "timer" ELSE @]

ChangeTtl(key, ttl) ==
    IF ~ChangeTtlResult(key)
    THEN UNCHANGED vars
    \* late: the deadline passes after val.Expired(), and Stop() finds the timer fired
    ELSE \E late \in BOOLEAN :
         LET val == data[key]
             \* the time that has passed when the clock is read again
             lag == IF late THEN 1 ELSE 0
             ts1 == IF late THEN Stop(FiredUnderway(timers, key), key)
                    ELSE IF val.timer # "nil" THEN Stop(timers, key) ELSE timers
         IN /\ late => Overdue(timers, key)
            /\ now' = now + lag
            /\ IF ttl < 0
               THEN /\ InBounds(RemoveStats(stats, key, val.size))
                    /\ stats' = RemoveStats(stats, key, val.size)
                    /\ data' = MapDelete(data, key)
                    /\ timers' = Unhold(ts1, key)
                    /\ lastSet' = Kept
                    /\ UNCHANGED <<Config, lookups>>
               ELSE LET arm == ttl > 0 /\ deleteOnExpire
                        \* a newly armed timer takes the place of the old one in val.timer
                        ts2 == IF arm THEN Unhold(ts1, key) ELSE ts1
                    IN /\ arm => LiveCount(ts2) < MaxTimers
                       /\ data' = MapPut(data, key,
                                    [Retimed(val, ttl, arm) EXCEPT !.expiryDate = @ + lag])
                       /\ timers' = IF arm THEN AfterFunc(ts2, key, val.size, ttl + lag)
                                            ELSE ts2
                       /\ UNCHANGED <<Config, stats, lookups, lastSet>>

\* a variant that returns the time left until the deadline
GetTtlResultRemaining(key) ==
    IF key \notin DOMAIN data \/ Expired(data[key]) THEN -1 ELSE data[key].expiryDate - now

\* the duration GetTtl returns
GetTtlResult(key) ==
    IF key \notin DOMAIN data \/ Expired(data[key]) THEN -1 ELSE data[key].ttl

GetTtl(key) ==
    /\ GetTtlResult(key) \in (-1)..MaxTtl
    /\ UNCHANGED vars

\* the bytes of the keys of KeySet
Bytes == [k \in KeySet |-> IF k = "a" THEN <<97>> ELSE <<98, 98>>]

RECURSIVE BytesLess(_, _)
\* the order of Go strings: byte by byte, a proper prefix first
BytesLess(s, t) ==
    IF s = <<>> THEN t # <<>>
    ELSE IF t = <<>> THEN FALSE
    ELSE IF Head(s) # Head(t) THEN Head(s) < Head(t)
    ELSE BytesLess(Tail(s), Tail(t))

StringLess(a, b) == BytesLess(Bytes[a], Bytes[b])

RECURSIVE Sorted(_)
\* slices.Sorted: the elements the iterator yields, in ascending order
Sorted(S) ==
    IF S = {} THEN <<>>
    ELSE LET m == CHOOSE x \in S : \A y \in S \ {x} : StringLess(x, y)
         IN <<m>> \o Sorted(S \ {m})

\* a variant that leaves the expired entries out
KeysResultLive == Sorted({k \in DOMAIN data : ~Expired(data[k])})

\* slices.Sorted(maps.Keys(c.data)), what Keys returns
KeysResult == Sorted(DOMAIN data)

Keys ==
    /\ Len(KeysResult) = Cardinality(DOMAIN data)
    /\ UNCHANGED vars

\* the flag Has returns
HasResult(key) == key \in DOMAIN data

Has(key) ==
    /\ HasResult(key) \in BOOLEAN
    /\ UNCHANGED vars

\* the copy Stats returns
StatsResult == stats

Stats ==
    /\ StatsResult = stats
    /\ UNCHANGED vars

RECURSIVE StopAll(_, _, _)
\* the loop of Clear: stop the timer of every stored entry and delete the entry
StopAll(ts, d, ks) ==
    IF ks = {} THEN ts
    ELSE LET k == CHOOSE x \in ks : TRUE
         IN StopAll(Unhold(IF d[k].timer # "nil" THEN Stop(ts, k) ELSE ts, k), d, ks \ {k})

Clear ==
    /\ data' = <<>>
    /\ timers' = StopAll(timers, data, DOMAIN data)
    /\ stats' = ZeroStats
    /\ lookups' = 0
    /\ lastSet' = Kept
    /\ UNCHANGED <<Config, now>>

\* a variant that resets the lookup counters only
ClearStatsLookupsOnly ==
    /\ stats' = [stats EXCEPT !.Hits = 0, !.Misses = 0]
    /\ lookups' = 0
    /\ UNCHANGED <<Config, data, timers, now, lastSet>>

ClearStats ==
    /\ stats' = ZeroStats
    /\ lookups' = 0
    /\ UNCHANGED <<Config, data, timers, now, lastSet>>

\* The copies Stats can return when it runs while a step is under way.  Stats takes no
\* lock, so its reads of the fields race with the writes of the operation that holds
\* c.mu: each field is read before or after its write.  Clear and ClearStats write no
\* field, they point c.stats to a new struct, and Stats copies the old or the new one.
StatsDuring ==
    IF Clear \/ ClearStats
    THEN {stats, stats'}
    ELSE [Hits : {stats.Hits, stats'.Hits}, Misses : {stats.Misses, stats'.Misses},
          Keys : {stats.Keys, stats'.Keys}, KeySize : {stats.KeySize, stats'.KeySize},
          ValueSize : {stats.ValueSize, stats'.ValueSize}]

\* ---------------------------------------------------------------- timers
\* The duration of an armed timer has elapsed: the runtime starts the callback in its
\* own goroutine, where it waits for c.mu.  The timer is armed after expiryDate was
\* computed, so it fires only once the entry's deadline lies in the past.  This is the
\* timer that fires while no operation is under way.
TimerFire(t) ==
    /\ t.state = "armed"
    /\ now > t.when
    /\ timers' = (timers (-) SetToBag({t})) (+) SetToBag({[t EXCEPT !.state = "fired", !.when = 0]})
    /\ UNCHANGED <<Config, data, stats, now, lookups, lastSet>>

\* a variant whose callback returns without touching the map or the ledger
TimerCallbackIdle(t) ==
    /\ t.state = "fired"
    /\ timers' = timers (-) SetToBag({t})
    /\ UNCHANGED <<Config, data, stats, now, lookups, lastSet>>

\* the body of the func passed to time.AfterFunc, run under c.mu
TimerCallback(t) ==
    LET stats1 == RemoveStats(stats, t.key, t.size)
    IN /\ t.state = "fired"
       /\ InBounds(stats1)
       /\ stats' = stats1
       /\ data' = MapDelete(data, t.key)
       /\ timers' = Unhold(timers (-) SetToBag({t}), t.key)
       /\ lastSet' = Kept
       /\ UNCHANGED <<Config, now, lookups>>

\* the time source advances
Tick ==
    /\ now < MaxTime
    /\ now' = now + 1
    /\ UNCHANGED <<Config, data, stats, timers, lookups, lastSet>>

Next ==
    \/ \E key \in KeySet, value \in ValueSet, ttl \in TtlArgs : SetWithTtl(key, value, ttl)
    \/ \E key \in KeySet, value \in ValueSet : Set(key, value)
    \/ \E key \in KeySet : Get(key)
    \/ \E key \in KeySet : GetAndDelete(key)
    \/ \E key \in KeySet : Delete(key)
    \/ \E key \in KeySet, ttl \in TtlArgs : ChangeTtl(key, ttl)
    \/ \E key \in KeySet : GetTtl(key)
    \/ Keys
    \/ \E key \in KeySet : Has(key)
    \/ Stats
    \/ Clear
    \/ ClearStats
    \/ \E t \in BagToSet(timers) : TimerFire(t)
    \/ \E t \in BagToSet(timers) : TimerCallback(t)
    \/ Tick

Spec == Init /\ [][Next]_vars

TypeOK ==
    /\ stdTtl \in 0..MaxTtl
    /\ deleteOnExpire \in BOOLEAN
    /\ maxKeys \in {-1, 0, 1}
    /\ DOMAIN data \subseteq KeySet
    /\ \A k \in DOMAIN data :
          /\ data[k].value \in ValueSet
          /\ data[k].size = SizeOf(data[k].value)
          /\ data[k].timer \in {"nil", "timer"}
          /\ data[k].timer # "nil" <=> Cardinality(Held(timers, k)) = 1
          /\ \A t \in Held(timers, k) : CopiesIn(t, timers) = 1
    /\ \A t \in BagToSet(timers) : t.held => t.key \in DOMAIN data
    /\ now \in 0..MaxTime
    /\ built \in BOOLEAN

\* ---------------------------------------------------------------- claims
KeyCount == Cardinality(DOMAIN data)

\* C1: with maxKeys = N >= 0 the map never holds more than N distinct keys.
CapacityRespected == maxKeys # -1 => KeyCount <= maxKeys

\* C2: SetWithTtl(key) returns ErrCacheFull exactly when maxKeys is not -1, key is absent
\* and the map already holds at least maxKeys keys.
CacheFullIffMapFull ==
    \A k \in KeySet :
        SetResult(k) = "ErrCacheFull"
            <=> (maxKeys # -1 /\ k \notin DOMAIN data /\ KeyCount >= maxKeys)

\* C3: a SetWithTtl call that returns ErrCacheFull leaves the map, every entry, every
\* timer and the five counters as they were.
RejectedSetHasNoEffect ==
    [][\A k \in KeySet, v \in ValueSet, t \in TtlArgs :
          (SetResult(k) = "ErrCacheFull" /\ SetWithTtl(k, v, t))
              => UNCHANGED <<data, stats, timers>>]_vars

\* a rejected SetWithTtl in a cache that holds an entry with an armed timer
RejectedSetSeen ==
    /\ \E k \in KeySet : SetResult(k) = "ErrCacheFull"
    /\ \E t \in BagToSet(timers) : t.state = "armed" /\ t.held
    /\ stats.Keys = 1 /\ KeyCount = 1

\* C4: Get of a present, unexpired key returns, with a nil error, the value passed to the
\* latest successful Set/SetWithTtl of that key, whatever other operations ran since.
GetReturnsLatestSet ==
    \A k \in KeySet :
        Found(k) => GetResult(k) = [value |-> lastSet[k], err |-> "nil"]

\* a Get has returned the value of a key whose TTL was changed after it was set
RetimedValueRead ==
    /\ stats.Hits = 1
    /\ \E k \in DOMAIN data :
          /\ Found(k) /\ data[k].value = "yy"
          /\ data[k].ttl = 1 /\ data[k].expiryDate = 3

\* C5: every Get or GetAndDelete adds exactly one to Hits (key present and unexpired, the
\* value is returned) or to Misses (otherwise, ErrKeyNotFound), so Hits + Misses is the
\* number of lookups since the ledger was last reset.
LookupsCounted ==
    /\ [](stats.Hits + stats.Misses = lookups)
    /\ [][\A k \in KeySet :
            (Get(k) \/ GetAndDelete(k)) =>
                IF Found(k)
                THEN /\ GetResult(k).err = "nil"
                     /\ stats'.Hits = stats.Hits + 1 /\ stats'.Misses = stats.Misses
                ELSE /\ GetResult(k).err = "ErrKeyNotFound"
                     /\ stats'.Misses = stats.Misses + 1 /\ stats'.Hits = stats.Hits]_vars

\* a lookup of an expired key that is still stored was counted as a miss
ExpiredLookupCounted ==
    /\ stats.Misses = 1 /\ lookups = 1
    /\ KeyCount = 1
    /\ \A k \in DOMAIN data : Expired(data[k])

\* C6: Get changes neither the set of stored keys nor any entry nor any timer, also for
\* an expired key of a cache with delete-on-expire.
GetChangesNoEntry ==
    [][\A k \in KeySet : Get(k) => UNCHANGED <<data, timers>>]_vars

\* Get missed an expired key of a delete-on-expire cache, and the entry is still stored
ExpiredKeyKeptByGet ==
    /\ deleteOnExpire
    /\ stats.Misses = 1 /\ stats.Keys = 2
    /\ \E k \in DOMAIN data : Expired(data[k]) /\ data[k].timer = "timer"

\* C7: Has(k) is true exactly when k is present and not expired.
HasIffLive == \A k \in KeySet : HasResult(k) <=> Found(k)

\* C8: in a cache without delete-on-expire no timer is ever armed, and an expired entry
\* stays stored: Keys lists it, it counts in the Keys statistic and against maxKeys, Get
\* of it returns ErrKeyNotFound and counts a miss, and it leaves the map only by Delete,
\* by an overwriting Set or by Clear.
ExpiredEntryStaysCounted ==
    /\ [](~deleteOnExpire =>
            /\ timers = EmptyBag
            /\ \A k \in DOMAIN data : Expired(data[k]) =>
                  /\ \E i \in 1..Len(KeysResult) : KeysResult[i] = k
                  /\ GetResult(k).err = "ErrKeyNotFound"
                  /\ stats.Keys >= 1
                  /\ (maxKeys # -1 /\ KeyCount >= maxKeys) =>
                         \A j \in KeySet \ DOMAIN data : SetResult(j) = "ErrCacheFull")
    /\ [][~deleteOnExpire =>
            \A k \in KeySet :
                (k \in DOMAIN data /\ Expired(data[k])) =>
                    /\ Get(k) => stats'.Misses = stats.Misses + 1
                    /\ ~(k \in DOMAIN data' /\ Expired(data[k])') =>
                           \/ Delete(k)
                           \/ Clear
                           \/ \E v \in ValueSet, t \in TtlArgs : SetWithTtl(k, v, t)]_vars

\* C9: in a cache with delete-on-expire an entry with a positive TTL is returned by Get
\* up to its deadline unless an operation on its key or Clear removes it, and once the
\* deadline has passed Get returns ErrKeyNotFound, Has is false and Keys does not list it.
LiveUntilDeadlineGoneAfter ==
    /\ [](deleteOnExpire =>
            \A k \in DOMAIN data : Expired(data[k]) =>
                /\ GetResult(k).err = "ErrKeyNotFound"
                /\ ~HasResult(k)
                /\ \A i \in 1..Len(KeysResult) : KeysResult[i] # k)
    /\ [][deleteOnExpire =>
            \A k \in KeySet :
                (/\ k \in DOMAIN data /\ data[k].ttl > 0
                 /\ now' <= data[k].expiryDate
                 /\ ~Found(k)') =>
                    \/ Delete(k)
                    \/ GetAndDelete(k)
                    \/ \E t \in TtlArgs : t < 0 /\ ChangeTtl(k, t)
                    \/ Clear]_vars

\* C10: an entry with ttl = 0 is found by every lookup, and it stays retrievable until
\* Delete, GetAndDelete, ChangeTtl with a negative TTL or Clear removes it; no timer does.
NoExpiryEntryStays ==
    /\ [](\A k \in DOMAIN data : data[k].ttl = 0 => GetResult(k).err = "nil")
    /\ [][\A k \in KeySet :
            (k \in DOMAIN data /\ data[k].ttl = 0 /\ ~Found(k)') =>
                \/ Delete(k)
                \/ GetAndDelete(k)
                \/ \E t \in TtlArgs : t < 0 /\ ChangeTtl(k, t)
                \/ Clear]_vars

\* the timer of the entry stored under k had not fired, and the step takes it away
Cancelled(k) ==
    /\ \A t \in Held(timers, k) : t.state # "fired"
    /\ timers' = timers (-) SetToBag(Held(timers, k))

\* C11: GetAndDelete of a present, unexpired key returns its value, counts one hit,
\* cancels the entry's timer, removes the key and takes 1, the key's size and the entry's
\* size from Keys, KeySize and ValueSize; of an absent or expired key it returns
\* ErrKeyNotFound, counts one miss and leaves the map, the timers and the sizes alone.
GetAndDeleteTakesLiveKey ==
    [][\A k \in KeySet :
          GetAndDelete(k) =>
              IF Found(k)
              THEN /\ GetResult(k) = [value |-> data[k].value, err |-> "nil"]
                   /\ stats' = [stats EXCEPT !.Hits = @ + 1,
                                             !.Keys = @ - 1,
                                             !.KeySize = @ - SizeOf(k),
                                             !.ValueSize = @ - data[k].size]
                   /\ data' = MapDelete(data, k)
                   /\ k \notin DOMAIN data'
                   /\ Cancelled(k)
              ELSE /\ GetResult(k) = [value |-> NoValue, err |-> "ErrKeyNotFound"]
                   /\ stats' = [stats EXCEPT !.Misses = @ + 1]
                   /\ UNCHANGED <<data, timers>>]_vars

\* C12: Delete(k) returns 1 exactly when k was stored; k is then absent, its timer is
\* cancelled and the ledger is decremented once, and a second Delete(k) returns 0;
\* otherwise it returns 0 and changes neither the map nor the ledger.
DeleteRemovesOnce ==
    [][\A k \in KeySet :
          Delete(k) =>
              IF k \in DOMAIN data
              THEN /\ DeleteResult(k) = 1
                   /\ data' = MapDelete(data, k)
                   /\ stats' = [stats EXCEPT !.Keys = @ - 1,
                                             !.KeySize = @ - SizeOf(k),
                                             !.ValueSize = @ - data[k].size]
                   /\ Cancelled(k)
                   /\ DeleteResult(k)' = 0
              ELSE /\ DeleteResult(k) = 0
                   /\ UNCHANGED <<data, stats, timers>>]_vars

\* ---------------------------------------------------------------- variadic Delete
\* The revision of the cache whose Delete takes any number of keys
\* (src/unnamed/part_006, lines 1-293).  It keeps no statistics: an entry is value,
\* ttl, expiryDate and timer, and the capacity check counts the map.

\* the entry that revision's SetWithTtl builds
PlainEntry(value, keyTtl, arm) ==
    [value |-> value, ttl |-> keyTtl, expiryDate |-> now + keyTtl,
     timer |-> IF arm THEN "timer" ELSE "nil"]

\* that revision's SetWithTtl
PlainSetWithTtl(key, value, ttl) ==
    LET ok == key \in DOMAIN data
        ts1 == IF ok /\ data[key].timer # "nil" THEN Stop(timers, key) ELSE timers
        ts2 == Unhold(ts1, key)
        keyTtl == KeyTtl(ttl)
        arm == keyTtl > 0 /\ deleteOnExpire
    IN IF ~ok /\ maxKeys # -1 /\ Cardinality(DOMAIN data) >= maxKeys
       THEN UNCHANGED vars
       ELSE /\ arm => LiveCount(ts2) < MaxTimers
            /\ data' = MapPut(MapDelete(data, key), key, PlainEntry(value, keyTtl, arm))
            /\ timers' = IF arm THEN AfterFunc(ts2, key, 0, keyTtl) ELSE ts2
            /\ UNCHANGED <<Config, stats, now, lookups, lastSet>>

RECURSIVE DeleteLoopCountAll(_, _, _, _)
\* a variant that counts every listed key, stored or not
DeleteLoopCountAll(d, ts, count, keys) ==
    IF keys = <<>> THEN [data |-> d, timers |-> ts, count |-> count]
    ELSE LET key == Head(keys)
         IN IF key \in DOMAIN d
            THEN DeleteLoopCountAll(MapDelete(d, key),
                                    Unhold(IF d[key].timer # "nil" THEN Stop(ts, key) ELSE ts, key),
                                    count + 1, Tail(keys))
            ELSE DeleteLoopCountAll(d, ts, count + 1, Tail(keys))

RECURSIVE DeleteLoop(_, _, _, _)
\* the loop of the variadic Delete over the listed keys, from the map d, the timers ts
\* and the count so far
DeleteLoop(d, ts, count, keys) ==
    IF keys = <<>> THEN [data |-> d, timers |-> ts, count |-> count]
    ELSE LET key == Head(keys)
         IN IF key \in DOMAIN d
            THEN DeleteLoop(MapDelete(d, key),
                            Unhold(IF d[key].timer # "nil" THEN Stop(ts, key) ELSE ts, key),
                            count + 1, Tail(keys))
            ELSE DeleteLoop(d, ts, count, Tail(keys))

\* the count the variadic Delete returns
DeleteKeysResult(keys) ==
    IF Len(keys) = 0 THEN 0 ELSE DeleteLoop(data, timers, 0, keys).count

\* the variadic Delete
DeleteKeys(keys) ==
    IF Len(keys) = 0
    THEN UNCHANGED vars
    ELSE /\ data' = DeleteLoop(data, timers, 0, keys).data
         /\ timers' = DeleteLoop(data, timers, 0, keys).timers
         /\ UNCHANGED <<Config, stats, now, lookups, lastSet>>

\* the func that revision passes to time.AfterFunc
PlainTimerCallback(t) ==
    /\ t.state = "fired"
    /\ data' = MapDelete(data, t.key)
    /\ timers' = Unhold(timers (-) SetToBag({t}), t.key)
    /\ UNCHANGED <<Config, stats, now, lookups, lastSet>>

NextVariadic ==
    \/ \E key \in KeySet, value \in ValueSet, ttl \in TtlArgs : PlainSetWithTtl(key, value, ttl)
    \/ \E keys \in KeyLists : DeleteKeys(keys)
    \/ \E t \in BagToSet(timers) : TimerFire(t)
    \/ \E t \in BagToSet(timers) : PlainTimerCallback(t)
    \/ Tick

SpecVariadic == Init /\ [][NextVariadic]_vars

\* the keys a call lists
Listed(keys) == {keys[i] : i \in 1..Len(keys)}

\* C13: the variadic Delete returns the number of listed keys that were stored (an absent
\* or repeated key counts 0); afterwards no listed key is stored and every other entry
\* and its timer are as before; with no keys it returns 0 and changes nothing.
DeleteKeysCountsRemoved ==
    [][\A keys \in KeyLists :
          DeleteKeys(keys) =>
              /\ DeleteKeysResult(keys) = Cardinality(Listed(keys) \cap DOMAIN data)
              /\ DOMAIN data' = (DOMAIN data) \ Listed(keys)
              /\ \A k \in DOMAIN data' : data'[k] = data[k]
              /\ \A t \in BagToSet(timers) \cup BagToSet(timers') :
                     t.key \notin Listed(keys) => CopiesIn(t, timers') = CopiesIn(t, timers)
              /\ Len(keys) = 0 => DeleteKeysResult(keys) = 0 /\ UNCHANGED vars]_vars

\* both keys are stored, one of them with an armed timer: a call that lists one key twice
\* and the other once removes two
TwoKeysToDelete ==
    /\ DOMAIN data = KeySet
    /\ \E k \in KeySet : data[k].timer = "timer"
    /\ DeleteKeysResult(<<"a", "bb", "a">>) = 2

\* C14: ChangeTtl(k, t) returns false exactly when k is absent or expired, and then, for
\* every t, the map, the entry, the timers and the statistics are left as they were.
ChangeTtlFalseIsNoOp ==
    /\ [](\A k \in KeySet :
            ChangeTtlResult(k) = FALSE <=>
                (k \notin DOMAIN data \/ (data[k].ttl > 0 /\ data[k].expiryDate < now)))
    /\ [][\A k \in KeySet, t \in TtlArgs :
            ((k \notin DOMAIN data \/ (data[k].ttl > 0 /\ data[k].expiryDate < now))
                /\ ChangeTtl(k, t))
                => UNCHANGED <<data, stats, timers>>]_vars

\* a cache without delete-on-expire keeps an expired entry, and ChangeTtl of it is refused
ExpiredKeyNotRevived ==
    /\ ~deleteOnExpire
    /\ \E k \in DOMAIN data : Expired(data[k]) /\ ~ChangeTtlResult(k)

\* C15: ChangeTtl(k, t) with t < 0 on a present, unexpired key returns true and does what
\* Delete(k) does: the entry is removed, its timer cancelled and Keys, KeySize and
\* ValueSize are decremented once.
NegativeTtlDeletes ==
    [][\A k \in KeySet, t \in TtlArgs :
          (t < 0 /\ Found(k) /\ ChangeTtl(k, t)) =>
              /\ ChangeTtlResult(k) = TRUE
              /\ data' = MapDelete(data, k)
              /\ k \notin DOMAIN data'
              /\ Cancelled(k)
              /\ stats' = [stats EXCEPT !.Keys = @ - 1,
                                        !.KeySize = @ - SizeOf(k),
                                        !.ValueSize = @ - data[k].size]]_vars

\* C16: ChangeTtl(k, 0) on a present, unexpired key returns true and sets the entry's ttl
\* to 0, so that the entry does not expire and GetTtl(k) is 0; the eviction armed before
\* is cancelled, no timer is armed, and the value and the statistics stay as they were.
ZeroTtlClearsExpiry ==
    /\ [](\A k \in DOMAIN data : data[k].ttl = 0 => (~Expired(data[k]) /\ GetTtlResult(k) = 0))
    /\ [][\A k \in KeySet :
            (Found(k) /\ ChangeTtl(k, 0)) =>
                /\ ChangeTtlResult(k) = TRUE
                /\ DOMAIN data' = DOMAIN data
                /\ data'[k].ttl = 0
                /\ GetTtlResult(k)' = 0
                /\ data'[k].value = data[k].value
                /\ \A j \in (DOMAIN data) \ {k} : data'[j] = data[j]
                /\ stats' = stats
                /\ \A t \in Held(timers, k) : t.state # "fired"
                /\ \A t \in Held(timers', k) : t.state = "stopped"
                /\ Live(timers') \subseteq Live(timers)
                /\ LiveCount(timers') = LiveCount(timers) - Cardinality(Held(timers, k) \cap Live(timers))]_vars

\* C17: ChangeTtl(k, t) with t > 0 on a present, unexpired key puts the deadline at the
\* time of the call plus t, whatever the deadline was: the key is found up to that time
\* and not after it, so no timer removes the entry before its deadline; the eviction
\* armed before is cancelled and, with delete-on-expire, the entry's one timer is armed
\* for the new deadline.
RetimeReplacesDeadline ==
    /\ [](\A k \in DOMAIN data :
            data[k].ttl > 0 =>
                /\ GetResult(k).err = "nil" <=> now <= data[k].expiryDate
                /\ \A t \in Held(timers, k) :
                       /\ t.state = "armed" => t.when = data[k].expiryDate
                       /\ t.state = "fired" => now > data[k].expiryDate)
    /\ [][\A k \in KeySet, t \in TtlArgs :
            (t > 0 /\ Found(k) /\ ChangeTtl(k, t)) =>
                /\ ChangeTtlResult(k) = TRUE
                /\ k \in DOMAIN data'
                /\ data'[k].ttl = t
                /\ data'[k].expiryDate = now' + t
                /\ data'[k].value = data[k].value
                /\ stats' = stats
                /\ \A h \in Held(timers, k) : h.state # "fired" /\ CopiesIn(h, timers') = 0
                /\ \A x \in Live(timers') :
                       (x.key = k /\ ~x.held) => CopiesIn(x, timers') = CopiesIn(x, timers)
                /\ IF deleteOnExpire
                   THEN Held(timers', k) = {[state |-> "armed", key |-> k, size |-> data[k].size,
                                             when |-> now' + t, held |-> TRUE]}
                   ELSE timers' = timers]_vars
    /\ [][\A x \in BagToSet(timers) :
            (TimerCallback(x) /\ x.key \in DOMAIN data /\ data[x.key].ttl > 0)
                => now > data[x.key].expiryDate]_vars

\* C18: SetWithTtl of a stored key replaces its deadline: the eviction armed for the old
\* entry is cancelled, and the key is retrievable until the new TTL has elapsed from the
\* overwrite (no timer removes it before) and not after.
OverwriteReplacesDeadline ==
    /\ [](\A k \in DOMAIN data :
            data[k].ttl > 0 => (GetResult(k).err = "nil" <=> now <= data[k].expiryDate))
    /\ [][\A k \in KeySet :
            /\ \A v \in ValueSet, t \in TtlArgs :
                   (k \in DOMAIN data /\ SetWithTtl(k, v, t)) =>
                       /\ SetResult(k) = "nil"
                       /\ data'[k].expiryDate = now + KeyTtl(t)
                       /\ GetResult(k)' = [value |-> v, err |-> "nil"]
                       /\ \A h \in Held(timers, k) : h.state # "fired"
                       /\ \A h \in Live(timers') : h.key = k => h.held
            /\ \A h \in BagToSet(timers) :
                   (Found(k) /\ h.key = k /\ TimerCallback(h)) => k \in DOMAIN data']_vars

\* C19: GetTtl(k) is -1 for an absent or expired key, 0 for a stored key without expiry,
\* and otherwise the ttl the entry was given by the last SetWithTtl or ChangeTtl, which
\* the passing of time does not change before the deadline; GetTtl changes no state.
GetTtlReturnsNominalTtl ==
    /\ [](\A k \in KeySet :
            /\ GetTtlResult(k) =
                  IF k \notin DOMAIN data THEN -1
                  ELSE IF data[k].ttl > 0 /\ data[k].expiryDate < now THEN -1
                  ELSE data[k].ttl
            /\ \A t \in TtlArgs, v \in ValueSet :
                  ~ENABLED (/\ SetResult(k) = "nil"
                            /\ SetWithTtl(k, v, t)
                            /\ GetTtlResult(k)' # KeyTtl(t))
            /\ \A t \in TtlArgs :
                  ~ENABLED (/\ t >= 0 /\ Found(k)
                            /\ ChangeTtl(k, t)
                            /\ GetTtlResult(k)' # t))
    /\ [][\A k \in KeySet :
            /\ GetTtl(k) => UNCHANGED vars
            /\ (Tick /\ Found(k)') => GetTtlResult(k)' = GetTtlResult(k)]_vars

\* one stored key has expired and another is at its deadline, its ttl still reported whole
TtlAtDeadline ==
    \E j \in DOMAIN data, k \in DOMAIN data :
        /\ GetTtlResult(j) = -1
        /\ GetTtlResult(k) = 1 /\ now = data[k].expiryDate

\* ---------------------------------------------------------------- default TTLs
\* The caches built with every kind of default TTL (none given, 0, positive) and without
\* a capacity: New(WithStdTtl(s), WithDeleteOnExpire(d)).
AnyStdTtlArgs == (-1)..MaxTtl

InitAnyStdTtl ==
    /\ \E s \in AnyStdTtlArgs, d \in BOOLEAN :
          /\ stdTtl = New(s, d, -1).stdTtl
          /\ deleteOnExpire = New(s, d, -1).deleteOnExpire
          /\ maxKeys = New(s, d, -1).maxKeys
    /\ data = <<>>
    /\ stats = ZeroStats
    /\ timers = EmptyBag
    /\ now = 0
    /\ lookups = 0
    /\ lastSet = [k \in KeySet |-> NoValue]
    /\ built = TRUE
    /\ mu = "free"
    /\ at = [p \in Procs |-> Idle]

SpecAnyStdTtl == InitAnyStdTtl /\ [][Next]_vars

\* C20: the entry SetWithTtl(k, v, ttl) creates has ttl when ttl >= 0 (0: no expiry, also
\* with a positive default) and the default TTL of the cache when ttl is negative, which
\* is what Set passes; so every stored entry has a ttl >= 0.
EffectiveTtlResolved ==
    \A k \in KeySet :
        /\ k \in DOMAIN data => data[k].ttl >= 0
        /\ \A v \in ValueSet, t \in TtlArgs :
               ~ENABLED (/\ SetResult(k) = "nil"
                         /\ SetWithTtl(k, v, t)
                         /\ data'[k].ttl # (IF t >= 0 THEN t ELSE stdTtl))
        /\ \A v \in ValueSet :
               ~ENABLED (/\ SetResult(k) = "nil"
                         /\ Set(k, v)
                         /\ data'[k].ttl # stdTtl)

\* a cache with a positive default TTL holds an entry set with ttl 0, which has no timer,
\* and an entry with the default
NoExpiryBesideDefault ==
    /\ deleteOnExpire /\ stdTtl = 1
    /\ \E j \in DOMAIN data, k \in DOMAIN data :
          /\ data[j].ttl = 0 /\ data[j].timer = "nil"
          /\ data[k].ttl = stdTtl /\ data[k].timer = "timer"

\* C21: Keys() returns the keys of the map, each once, expired entries that are still
\* stored included, in ascending lexicographic order, and changes no state.
KeysListsStoredKeysSorted ==
    /\ [](/\ {KeysResult[i] : i \in 1..Len(KeysResult)} = DOMAIN data
          /\ Len(KeysResult) = Cardinality(DOMAIN data)
          /\ \A i, j \in 1..Len(KeysResult) :
                 i < j => StringLess(KeysResult[i], KeysResult[j]))
    /\ [][Keys => UNCHANGED vars]_vars

\* both keys are stored and listed in order, "bb" written first, one of them expired
ExpiredKeyListed ==
    /\ KeysResult = <<"a", "bb">>
    /\ Expired(data["a"]) /\ ~Expired(data["bb"])
    /\ \A t \in Held(timers, "bb") : t.state = "armed"
    /\ ENABLED Keys

\* the step is a Set or a lookup
SetOrGet ==
    \/ \E key \in KeySet, value \in ValueSet, ttl \in TtlArgs : SetWithTtl(key, value, ttl)
    \/ \E key \in KeySet, value \in ValueSet : Set(key, value)
    \/ \E key \in KeySet : Get(key) \/ GetAndDelete(key)

\* what a caller reads after Clear: no key, and a ledger of zeros
ReadsCleared ==
    /\ KeysResult = <<>>
    /\ \A k \in KeySet : ~HasResult(k)
    /\ StatsResult = ZeroStats

\* a state as Clear leaves it: Clear called in it changes nothing
Cleared == ReadsCleared /\ lookups = 0

\* C22: after Clear() returns, Keys() is empty, Has(k) is false for every key and the five
\* counters are zero, and this stays so until the next Set or Get, also when a timer
\* armed before the Clear fires afterwards.
ClearedStaysCleared ==
    /\ [][Clear => ReadsCleared']_vars
    /\ [][Clear => ~(ENABLED (Next /\ ~SetOrGet /\ ~ReadsCleared'))']_vars
    /\ [][(Cleared /\ ~SetOrGet /\ ReadsCleared') => Cleared']_vars

\* C23: ClearStats() sets the five counters to zero and leaves the entries alone: the
\* map, every entry and every timer are unchanged, so Has, Get, GetTtl and Keys return
\* what they returned before the call.
ClearStatsKeepsEntries ==
    [][ClearStats =>
          /\ StatsResult' = ZeroStats
          /\ UNCHANGED <<data, timers, now, Config>>
          /\ KeysResult' = KeysResult
          /\ \A k \in KeySet :
                 /\ HasResult(k)' = HasResult(k)
                 /\ GetResult(k)' = GetResult(k)
                 /\ GetTtlResult(k)' = GetTtlResult(k)]_vars

\* two keys written at time 0, one with an armed timer, and a ledger reset since
LedgerResetBesideEntries ==
    /\ now = 0
    /\ DOMAIN data = KeySet
    /\ stats = ZeroStats
    /\ \E k \in KeySet : \E t \in Held(timers, k) : t.state = "armed"

\* ---------------------------------------------------------------- ledger
\* The runs in which ClearStats is never called.
NextNoClearStats ==
    \/ \E key \in KeySet, value \in ValueSet, ttl \in TtlArgs : SetWithTtl(key, value, ttl)
    \/ \E key \in KeySet, value \in ValueSet : Set(key, value)
    \/ \E key \in KeySet : Get(key)
    \/ \E key \in KeySet : GetAndDelete(key)
    \/ \E key \in KeySet : Delete(key)
    \/ \E key \in KeySet, ttl \in TtlArgs : ChangeTtl(key, ttl)
    \/ \E key \in KeySet : GetTtl(key)
    \/ Keys
    \/ \E key \in KeySet : Has(key)
    \/ Stats
    \/ Clear
    \/ \E t \in BagToSet(timers) : TimerFire(t)
    \/ \E t \in BagToSet(timers) : TimerCallback(t)
    \/ Tick

SpecNoClearStats == Init /\ [][NextNoClearStats]_vars

RECURSIVE KeySizeOf(_)
\* the sum of SizeOf(key) over the keys of S
KeySizeOf(S) ==
    IF S = {} THEN 0
    ELSE LET k == CHOOSE x \in S : TRUE IN SizeOf(k) + KeySizeOf(S \ {k})

RECURSIVE ValueSizeOf(_, _)
\* the sum of the sizes of the values stored in d under the keys of S
ValueSizeOf(d, S) ==
    IF S = {} THEN 0
    ELSE LET k == CHOOSE x \in S : TRUE IN SizeOf(d[k].value) + ValueSizeOf(d, S \ {k})

\* C24: while ClearStats has not been called, Stats().Keys is the number of keys in the
\* map and Stats().KeySize the sum of their sizes: one increment per new key, one
\* decrement per removal, none for an overwrite.
LedgerCountsKeys ==
    /\ StatsResult.Keys = Cardinality(DOMAIN data)
    /\ StatsResult.KeySize = KeySizeOf(DOMAIN data)

\* C25: while ClearStats has not been called, Stats().ValueSize is the sum of the sizes of
\* the values stored in the map, also after Set has overwritten a key.
LedgerSumsValues ==
    StatsResult.ValueSize = ValueSizeOf(data, DOMAIN data)

\* C26: the five values Stats() returns are those of the ledger in one state between two
\* operations, never some from before and some from after a mutation that runs at the
\* same time.
StatsReadsOneState ==
    [][\A s \in StatsDuring : s = stats \/ s = stats']_vars

\* ---------------------------------------------------------------- construction
\* New(opts...) step by step: the struct literal, then one step per option of the
\* list, then the return of the cache; the operations act on a returned cache.
OptStdTtlArgs == (-1)..MaxTtl
OptMaxKeysArgs == {-1, 0, 1}
OptKeys == {"a"}
OptValues == {"x"}

\* the settings of the cache under construction
Settings == [stdTtl |-> stdTtl, deleteOnExpire |-> deleteOnExpire, maxKeys |-> maxKeys]

\* fn(c) for one option of the list
Apply(c) ==
    /\ ~built
    /\ stdTtl' = c.stdTtl
    /\ deleteOnExpire' = c.deleteOnExpire
    /\ maxKeys' = c.maxKeys
    /\ UNCHANGED <<built, mu, at, data, stats, timers, now, lookups, lastSet>>

\* return c
Return ==
    /\ ~built
    /\ built' = TRUE
    /\ UNCHANGED <<stdTtl, deleteOnExpire, maxKeys, mu, at, data, stats, timers, now, lookups,
                   lastSet>>

InitOptions ==
    /\ stdTtl = Defaults.stdTtl
    /\ deleteOnExpire = Defaults.deleteOnExpire
    /\ maxKeys = Defaults.maxKeys
    /\ data = <<>>
    /\ stats = ZeroStats
    /\ timers = EmptyBag
    /\ now = 0
    /\ lookups = 0
    /\ lastSet = [k \in KeySet |-> NoValue]
    /\ built = FALSE
    /\ mu = "free"
    /\ at = [p \in Procs |-> Idle]

NextOptions ==
    \/ \E arg \in OptStdTtlArgs : Apply(WithStdTtl(Settings, arg))
    \/ \E arg \in BOOLEAN : Apply(WithDeleteOnExpire(Settings, arg))
    \/ \E arg \in OptMaxKeysArgs : Apply(WithMaxKeys(Settings, arg))
    \/ Return
    \/ built /\ \E key \in OptKeys, value \in OptValues, ttl \in TtlArgs : SetWithTtl(key, value, ttl)
    \/ built /\ \E key \in OptKeys, value \in OptValues : Set(key, value)
    \/ built /\ \E key \in OptKeys : Get(key)
    \/ built /\ \E key \in OptKeys : GetAndDelete(key)
    \/ built /\ \E key \in OptKeys : Delete(key)
    \/ built /\ \E key \in OptKeys, ttl \in TtlArgs : ChangeTtl(key, ttl)
    \/ built /\ \E key \in OptKeys : GetTtl(key)
    \/ built /\ Keys
    \/ built /\ \E key \in OptKeys : Has(key)
    \/ built /\ Stats
    \/ built /\ Clear
    \/ built /\ ClearStats
    \/ \E t \in BagToSet(timers) : TimerFire(t)
    \/ \E t \in BagToSet(timers) : TimerCallback(t)
    \/ built /\ Tick

SpecOptions == InitOptions /\ [][NextOptions]_vars

\* C27: New() with no options gives default TTL 0, delete-on-expire true and maxKeys -1;
\* WithStdTtl and WithMaxKeys leave the setting as it is for a negative argument and store
\* 0 and positive arguments as given; no cache operation changes the three settings.
SettingsFixedByNew ==
    /\ (stdTtl = 0 /\ deleteOnExpire = TRUE /\ maxKeys = -1)
    /\ [](~built =>
            /\ \A arg \in OptStdTtlArgs :
                   ~ENABLED (/\ Apply(WithStdTtl(Settings, arg))
                             /\ ~(/\ stdTtl' = IF arg < 0 THEN stdTtl ELSE arg
                                  /\ UNCHANGED <<deleteOnExpire, maxKeys>>))
            /\ \A arg \in OptMaxKeysArgs :
                   ~ENABLED (/\ Apply(WithMaxKeys(Settings, arg))
                             /\ ~(/\ maxKeys' = IF arg < 0 THEN maxKeys ELSE arg
                                  /\ UNCHANGED <<stdTtl, deleteOnExpire>>)))
    /\ [][Return => UNCHANGED <<stdTtl, deleteOnExpire, maxKeys>>]_vars
    /\ [][built => UNCHANGED <<stdTtl, deleteOnExpire, maxKeys>>]_vars

\* a cache built with all three options, in use at the end of time with a key stored
OptionsInForce ==
    /\ built
    /\ stdTtl = 1 /\ ~deleteOnExpire /\ maxKeys = 1
    /\ "a" \in DOMAIN data /\ Expired(data["a"])
    /\ stats.Misses = 1

\* ---------------------------------------------------------------- eviction races
\* The runs in which ChangeTtl is never called.  In them an entry keeps the timer it was
\* built with, so a timer is held exactly as long as the map holds the entry instance it
\* was armed for.
NextNoChangeTtl ==
    \/ \E key \in KeySet, value \in ValueSet, ttl \in TtlArgs : SetWithTtl(key, value, ttl)
    \/ \E key \in KeySet, value \in ValueSet : Set(key, value)
    \/ \E key \in KeySet : Get(key)
    \/ \E key \in KeySet : GetAndDelete(key)
    \/ \E key \in KeySet : Delete(key)
    \/ \E key \in KeySet : GetTtl(key)
    \/ Keys
    \/ \E key \in KeySet : Has(key)
    \/ Stats
    \/ Clear
    \/ ClearStats
    \/ \E t \in BagToSet(timers) : TimerFire(t)
    \/ \E t \in BagToSet(timers) : TimerCallback(t)
    \/ Tick

SpecNoChangeTtl == Init /\ [][NextNoChangeTtl]_vars

\* C28: a fired callback removes its key only if the map still holds the entry instance
\* its timer was armed for: an entry written by Set after the timer was armed is not
\* removed by the older callback.
CallbackRemovesOwnEntryOnly ==
    [][\A t \in BagToSet(timers) :
          (TimerCallback(t) /\ ~t.held /\ t.key \in DOMAIN data)
              => (t.key \in DOMAIN data' /\ data'[t.key] = data[t.key])]_vars

\* C29: when an eviction races with Delete, GetAndDelete, ChangeTtl with a negative ttl
\* or Clear removing the same entry, the one that takes the lock second changes neither
\* the map nor Keys, KeySize and ValueSize: the entry is counted out once.
SecondRemoverIsNoOp ==
    /\ [][\A t \in BagToSet(timers) :
            (TimerCallback(t) /\ t.key \notin DOMAIN data)
                => /\ data' = data
                   /\ stats'.Keys = stats.Keys
                   /\ stats'.KeySize = stats.KeySize
                   /\ stats'.ValueSize = stats.ValueSize]_vars
    /\ [][\A k \in KeySet :
            (k \notin DOMAIN data /\ (Delete(k) \/ GetAndDelete(k) \/ ChangeTtl(k, -1)))
                => /\ data' = data
                   /\ stats'.Keys = stats.Keys
                   /\ stats'.KeySize = stats.KeySize
                   /\ stats'.ValueSize = stats.ValueSize]_vars

\* C30: an eviction cancelled by ChangeTtl, Set, Delete, GetAndDelete or Clear changes
\* neither the map nor the ledger afterwards, also when its timer had fired before; a
\* timer removes a key only after the deadline the entry has, and never an entry whose
\* ttl is 0.
CancelledEvictionIsNoOp ==
    /\ [][\A t \in BagToSet(timers) :
            (TimerCallback(t) /\ ~t.held) => UNCHANGED <<data, stats>>]_vars
    /\ [][\A t \in BagToSet(timers) :
            (TimerCallback(t) /\ t.key \in DOMAIN data) => Expired(data[t.key])]_vars

\* ---------------------------------------------------------------- timers and entries
\* the number of live callbacks scheduled for key k
LiveFor(k) == Count(timers, {t \in Live(timers) : t.key = k})

\* C31: in every reachable state a key has at most one live eviction callback, a timer
\* that is armed and not stopped or one that has fired and whose callback has not run.
OneLiveCallbackPerKey ==
    \A k \in KeySet : LiveFor(k) <= 1

\* C32: in every reachable state an entry's timer field is set only if the entry's ttl is
\* positive and delete-on-expire is on; ChangeTtl to a ttl of 0 clears it.
HandleOnlyForExpiringEntry ==
    \A k \in DOMAIN data :
        data[k].timer # "nil" => (data[k].ttl > 0 /\ deleteOnExpire)

\* ---------------------------------------------------------------- the mutex
\* The operations as the goroutines run them: the call, c.mu.Lock(), the body that
\* reads and writes c.data and c.stats, and the deferred c.mu.Unlock() on the way out.
\* The steps follow the lock only; what a body does to the cache is the atomic step of
\* the same name above.
PublicOps == {"Set", "SetWithTtl", "Get", "GetAndDelete", "Delete", "ChangeTtl", "GetTtl",
              "Keys", "Has", "Stats", "Clear", "ClearStats"}

\* the operations whose first statement is c.mu.Lock(); Set only delegates, Stats only
\* copies *c.stats
Locking == (PublicOps \cup {"callback"}) \ {"Set", "Stats"}

\* the return statements of a body
Exits(op) ==
    CASE op = "SetWithTtl" -> {"ErrCacheFull", "nil"}
      [] op \in {"Get", "GetAndDelete"} -> {"ErrKeyNotFound", "nil"}
      [] op = "Delete" -> {"0", "1"}
      [] op = "ChangeTtl" -> {"false", "true"}
      [] op = "GetTtl" -> {"-1", "ttl"}
      [] OTHER -> {"end"}

\* a goroutine calls an operation; the runtime starts the func of a fired timer
Call(p, op) ==
    /\ at[p] = Idle
    /\ at' = [at EXCEPT ![p] = [op |-> op, pc |-> "enter", exit |-> "none"]]
    /\ UNCHANGED <<cache, mu>>

\* return c.SetWithTtl(key, value, -1)
Delegate(p) ==
    /\ at[p].pc = "enter"
    /\ at[p].op = "Set"
    /\ at' = [at EXCEPT ![p].op = "SetWithTtl"]
    /\ UNCHANGED <<cache, mu>>

\* c.mu.Lock(): the goroutine waits until the mutex is free
Lock(p) ==
    /\ at[p].pc = "enter"
    /\ at[p].op \in Locking
    /\ mu = "free"
    /\ mu' = p
    /\ at' = [at EXCEPT ![p].pc = "body"]
    /\ UNCHANGED cache

\* Stats starts to copy *c.stats
Unlocked(p) ==
    /\ at[p].pc = "enter"
    /\ at[p].op = "Stats"
    /\ at' = [at EXCEPT ![p].pc = "body"]
    /\ UNCHANGED <<cache, mu>>

\* the body runs up to one of its return statements
Body(p) ==
    /\ at[p].pc = "body"
    /\ \E e \in Exits(at[p].op) : at' = [at EXCEPT ![p].pc = "defer", ![p].exit = e]
    /\ UNCHANGED <<cache, mu>>

\* the deferred call of an operation that locked keeps the mutex: the variant of Unlock
\* without c.mu.Unlock()
UnlockKept(p) ==
    /\ at[p].pc = "defer"
    /\ at' = [at EXCEPT ![p] = Idle]
    /\ UNCHANGED <<cache, mu>>

\* the function returns: defer c.mu.Unlock() runs if the operation locked
Unlock(p) ==
    /\ at[p].pc = "defer"
    /\ mu' = IF at[p].op \in Locking THEN "free" ELSE mu
    /\ at' = [at EXCEPT ![p] = Idle]
    /\ UNCHANGED cache

\* a step inside an operation
Proceed(p) == Delegate(p) \/ Lock(p) \/ Unlocked(p) \/ Body(p) \/ Unlock(p)

NextLocks ==
    \/ \E p \in Callers, op \in PublicOps : Call(p, op)
    \/ Call("timer", "callback")
    \/ \E p \in Procs : Delegate(p)
    \/ \E p \in Procs : Lock(p)
    \/ \E p \in Procs : Unlocked(p)
    \/ \E p \in Procs : Body(p)
    \/ \E p \in Procs : Unlock(p)

\* The Go scheduler runs every runnable goroutine, and a sync.Mutex in starvation mode
\* hands the lock to the goroutine that waited longest: a goroutine that is ready keeps
\* going, and one that waits for the mutex gets it if the mutex is free again and again.
\* Nothing obliges a caller to call.
SpecLocks ==
    /\ Init
    /\ [][NextLocks]_vars
    /\ \A p \in Procs : WF_vars(Delegate(p) \/ Unlocked(p) \/ Body(p) \/ Unlock(p))
    /\ \A p \in Procs : SF_vars(Lock(p))

\* C33: in every reachable state a goroutine that is in the body of an operation or of a
\* callback, where the map and the ledger are read and written, holds the mutex; so no
\* two goroutines are in a body at the same time.
BodyHoldsLock ==
    /\ \A p \in Procs : at[p].pc = "body" => mu = p
    /\ \A p, q \in Procs : (at[p].pc = "body" /\ at[q].pc = "body") => p = q

\* a goroutine returns from SetWithTtl with ErrCacheFull while another caller and a fired
\* callback wait for the mutex
ErrorReturnWhileOthersWait ==
    /\ at["c1"] = [op |-> "SetWithTtl", pc |-> "defer", exit |-> "ErrCacheFull"]
    /\ at["c2"] = [op |-> "Get", pc |-> "enter", exit |-> "none"]
    /\ at["timer"] = [op |-> "callback", pc |-> "enter", exit |-> "none"]
    /\ mu = "c1"

\* C34: a goroutine outside an operation never holds the mutex, whatever return statement
\* it left by; the mutex is only taken when it is free, and only a goroutine inside a body
\* or on its way out holds it; some goroutine inside an operation can always take a step;
\* and with fair scheduling every operation called and every callback started returns.
LockReleasedOperationsComplete ==
    /\ [](\A p \in Procs : at[p] = Idle => mu # p)
    /\ [](\A p \in Procs : mu = p => at[p].pc \in {"body", "defer"})
    /\ [][\A p \in Procs : (mu' = p /\ mu # p) => mu = "free"]_vars
    /\ []((\E p \in Procs : at[p] # Idle) => ENABLED (\E p \in Procs : Proceed(p)))
    /\ \A p \in Procs : (at[p] # Idle) ~> (at[p] = Idle)

\* ---------------------------------------------------------------- one order of operations
\* C35: the operations take effect one after the other in the order they took the mutex,
\* and a read returns what the cache holds after one of them: every value a Stats call
\* can return while a step is under way is the ledger before the step or the ledger after
\* it.
ReadsSeeAPrefix ==
    [][StatsDuring \subseteq {stats, stats'}]_vars

\* ---------------------------------------------------------------- counters
\* C37: a step of Has, GetTtl, Keys, Stats, SetWithTtl, Set, Delete, ChangeTtl, of a timer
\* or of the clock leaves Hits and Misses as they are; a step that changes one of them is
\* a Get or a GetAndDelete, which only adds, or a Clear or ClearStats.
LookupCountersOnlyByLookups ==
    [][\/ stats'.Hits = stats.Hits /\ stats'.Misses = stats.Misses
       \/ /\ \E key \in KeySet : Get(key) \/ GetAndDelete(key)
          /\ stats'.Hits >= stats.Hits
          /\ stats'.Misses >= stats.Misses
       \/ Clear
       \/ ClearStats]_vars

\* a lookup has been counted as a hit, and both keys are stored, one of them with a timer
HitCountedBesideOtherOperations ==
    /\ stats.Hits = 1
    /\ DOMAIN data = KeySet
    /\ \E k \in KeySet : data[k].timer # "nil"

\* C38: in every reachable state the counters Keys, KeySize and ValueSize of the ledger
\* are what unsigned subtraction without wrap-around leaves: none of them has been taken
\* below zero.
CountersNeverUnderflow ==
    /\ stats.Keys >= 0
    /\ stats.KeySize >= 0
    /\ stats.ValueSize >= 0

\* ---------------------------------------------------------------- capacity under contention
\* C39: two callers Set two distinct new keys on a cache with maxKeys = N > 0 that holds
\* N - 1 keys; the mutex puts one call first.  The first call stores its key, and in the
\* state it leaves the call for the other key returns ErrCacheFull: exactly one succeeds.
OneOfTwoSetsSucceeds ==
    [][\A k1 \in KeySet, v \in ValueSet :
          (/\ maxKeys > 0
           /\ KeyCount = maxKeys - 1
           /\ k1 \notin DOMAIN data
           /\ Set(k1, v))
          => /\ k1 \in DOMAIN data'
             /\ \A k2 \in KeySet \ (DOMAIN data') : SetResult(k2)' = "ErrCacheFull"]_vars

\* ---------------------------------------------------------------- timers without entry
\* C40: in every reachable state a timer that is armed and not stopped is the one the
\* timer field of the entry stored under its key points to; for a key that is not in the
\* map no armed timer remains.
NoTimerOutlivesEntry ==
    /\ \A t \in BagToSet(timers) :
          t.state = "armed" => (t.held /\ t.key \in DOMAIN data /\ data[t.key].timer # "nil")
    /\ \A k \in KeySet \ (DOMAIN data) :
          ~\E t \in BagToSet(timers) : t.key = k /\ t.state = "armed"

\* ---------------------------------------------------------------- eviction in time
\* The cache with one key and one value, the clock that advances and the runtime that
\* fires every due timer and runs every fired callback; nothing obliges a caller to call.
NextOneKey ==
    \/ \E key \in OptKeys, value \in OptValues, ttl \in TtlArgs : SetWithTtl(key, value, ttl)
    \/ \E key \in OptKeys, value \in OptValues : Set(key, value)
    \/ \E key \in OptKeys : Get(key)
    \/ \E key \in OptKeys : GetAndDelete(key)
    \/ \E key \in OptKeys : Delete(key)
    \/ \E key \in OptKeys, ttl \in TtlArgs : ChangeTtl(key, ttl)
    \/ \E key \in OptKeys : GetTtl(key)
    \/ Keys
    \/ \E key \in OptKeys : Has(key)
    \/ Stats
    \/ Clear
    \/ ClearStats
    \/ \E t \in BagToSet(timers) : TimerFire(t)
    \/ \E t \in BagToSet(timers) : TimerCallback(t)
    \/ Tick

SpecEviction ==
    /\ Init
    /\ [][NextOneKey]_vars
    /\ WF_vars(Tick)
    /\ \A k \in OptKeys : WF_vars(\E t \in BagToSet(timers) : t.key = k /\ TimerFire(t))
    /\ \A k \in OptKeys : WF_vars(\E t \in BagToSet(timers) : t.key = k /\ TimerCallback(t))

\* the entry stored under k has value v, a positive ttl and the deadline d
Expiring(k, v, d) ==
    /\ k \in DOMAIN data
    /\ data[k].value = v
    /\ data[k].ttl > 0
    /\ data[k].expiryDate = d

====
